---- MODULE Spec2Model ----
(***************************************************************************)
(* The record-resolution and merge engine of merge-publications.py:        *)
(* merge() reads the rows of five sources, resolves every row to a         *)
(* canonical key (add, lines 41-62), fuses its fields into the canonical   *)
(* record of that key (set_field, lines 64-97) and writes the registry.    *)
(*                                                                         *)
(* A Python str is a sequence of one-character strings, so that lower(),   *)
(* strip(), the regular expression of norm(), len() and the similarity     *)
(* score are computed character by character.  A source tag and a field    *)
(* name are dictionary keys that are only compared: they are TLA+ strings. *)
(***************************************************************************)
EXTENDS Integers, Sequences, FiniteSets, TLC

VARIABLES pc, files, data, canon, titles, si, ri, n, last, rows, csv, jsonl,
          past,
          \* tools/merge_master.py
          all_df, openalex, master, out,
          \* tools/generate_master_csv.py
          present, fi, records, master_csv,
          \* main.py, run_wp_rest
          listing, args, state, run, wp_state, wp_csv

\* The state of merge-publications.py
mergeVars == <<files, data, canon, titles, si, ri, n, last, rows, csv, jsonl,
               past>>

\* The state of tools/merge_master.py
masterVars == <<all_df, openalex, master, out>>

\* The state of tools/generate_master_csv.py
generateVars == <<present, fi, records, master_csv>>

\* The state of run_wp_rest of main.py
wpVars == <<listing, args, state, run, wp_state, wp_csv>>

toolVars == <<masterVars, generateVars, wpVars>>

vars == <<pc, mergeVars, toolVars>>

----------------------------------------------------------------------------
(* Characters *)

UpperChars == <<"A","B","C","D","E","F","G","H","I","J","K","L","M",
                "N","O","P","Q","R","S","T","U","V","W","X","Y","Z">>

LowerChars == <<"a","b","c","d","e","f","g","h","i","j","k","l","m",
                "n","o","p","q","r","s","t","u","v","w","x","y","z">>

DigitChars == <<"0","1","2","3","4","5","6","7","8","9">>

\* The characters of the model in code-point order (sorted() compares by it).
CharOrder == <<"\t", "\n", " ", "\"", ",", "-", ".", "/">> \o DigitChars
             \o <<":">> \o UpperChars \o <<"_">> \o LowerChars \o <<"{", "|", "}">>

\* str.strip() and the regular expression \s: the whitespace characters.
Whitespace == {" ", "\t", "\n"}

Chars == {CharOrder[i] : i \in 1..Len(CharOrder)}

\* The lower-case form of every character: an upper-case letter maps to its
\* lower-case letter, any other character to itself.
LowerMap ==
    [c \in Chars |->
        IF \E i \in 1..Len(UpperChars) : UpperChars[i] = c
        THEN LowerChars[CHOOSE i \in 1..Len(UpperChars) : UpperChars[i] = c]
        ELSE c]

lower_char(c) == LowerMap[c]

\* str.lower()
lower(s) == [i \in 1..Len(s) |-> lower_char(s[i])]

\* str.strip(): the string without its leading and trailing whitespace.
strip(s) ==
    LET keep == {i \in 1..Len(s) : s[i] \notin Whitespace}
    IN  IF keep = {} THEN <<>>
        ELSE SubSeq(s, CHOOSE i \in keep : \A j \in keep : i <= j,
                       CHOOSE i \in keep : \A j \in keep : j <= i)

\* re.sub(r"\s+", " ", s): every run of whitespace becomes one space.
RECURSIVE collapse(_, _)
collapse(s, i) ==
    IF i > Len(s) THEN <<>>
    ELSE IF s[i] \in Whitespace
         THEN IF i > 1 /\ s[i-1] \in Whitespace
              THEN collapse(s, i + 1)
              ELSE <<" ">> \o collapse(s, i + 1)
         ELSE <<s[i]>> \o collapse(s, i + 1)

\* norm(s): line 21
norm(s) == collapse(lower(strip(s)), 1)

\* a or b, on strings: the first operand unless it is empty (None and "" alike)
Or(a, b) == IF a # <<>> THEN a ELSE b

\* str(n) of a natural number
RECURSIVE str(_)
str(k) == IF k < 10 THEN <<DigitChars[k + 1]>>
          ELSE str(k \div 10) \o <<DigitChars[(k % 10) + 1]>>

----------------------------------------------------------------------------
(* rapidfuzz: fuzz.token_sort_ratio and process.extractOne *)

CodeMap == [c \in Chars |-> CHOOSE i \in 1..Len(CharOrder) : CharOrder[i] = c]

CodeOf(c) == CodeMap[c]

\* a < b for Python strings: lexicographic by code point
RECURSIVE StrLess(_, _)
StrLess(a, b) ==
    IF b = <<>> THEN FALSE
    ELSE IF a = <<>> THEN TRUE
    ELSE IF a[1] = b[1] THEN StrLess(Tail(a), Tail(b))
    ELSE CodeOf(a[1]) < CodeOf(b[1])

\* str.split(): the maximal runs of non-whitespace characters
RECURSIVE split(_, _, _)
split(s, i, cur) ==
    IF i > Len(s) THEN (IF cur = <<>> THEN <<>> ELSE <<cur>>)
    ELSE IF s[i] \in Whitespace
         THEN (IF cur = <<>> THEN <<>> ELSE <<cur>>) \o split(s, i + 1, <<>>)
         ELSE split(s, i + 1, Append(cur, s[i]))

RECURSIVE insert_sorted(_, _)
insert_sorted(x, seq) ==
    IF seq = <<>> THEN <<x>>
    ELSE IF StrLess(x, seq[1]) THEN <<x>> \o seq
    ELSE <<seq[1]>> \o insert_sorted(x, Tail(seq))

\* sorted(tokens)
RECURSIVE sorted(_)
sorted(seq) == IF seq = <<>> THEN <<>>
               ELSE insert_sorted(seq[1], sorted(Tail(seq)))

\* sep.join(parts)
RECURSIVE join(_, _)
join(sep, parts) ==
    IF parts = <<>> THEN <<>>
    ELSE IF Len(parts) = 1 THEN parts[1]
    ELSE parts[1] \o sep \o join(sep, Tail(parts))

Max(a, b) == IF a >= b THEN a ELSE b

\* One row of the longest-common-subsequence table: row[j+1] is the length
\* for the prefix of a ending in ch and the first j characters of b.  The
\* tests v >= 0 and Len(row) > 0 are always true: they make each value be
\* computed before the next step is taken.
RECURSIVE lcs_row(_, _, _, _, _)
lcs_row(prev, ch, b, j, acc) ==
    IF j > Len(b) THEN acc
    ELSE LET v == IF ch = b[j] THEN prev[j] + 1 ELSE Max(prev[j + 1], acc[j])
         IN  IF v >= 0 THEN lcs_row(prev, ch, b, j + 1, Append(acc, v)) ELSE acc

RECURSIVE lcs_rows(_, _, _, _)
lcs_rows(a, b, i, prev) ==
    IF i > Len(a) THEN prev[Len(b) + 1]
    ELSE LET row == lcs_row(prev, a[i], b, 1, <<0>>)
         IN  IF Len(row) > 0 THEN lcs_rows(a, b, i + 1, row) ELSE 0

lcs_table(a, b) == lcs_rows(a, b, 1, [j \in 1..(Len(b) + 1) |-> 0])

\* The length of the common prefix of a and b from position i on, and of
\* their common suffix counted back from their ends, k characters matched
RECURSIVE common_prefix(_, _, _)
common_prefix(a, b, i) ==
    IF i <= Len(a) /\ i <= Len(b) /\ a[i] = b[i]
    THEN common_prefix(a, b, i + 1) ELSE i - 1

RECURSIVE common_suffix(_, _, _)
common_suffix(a, b, k) ==
    IF k < Len(a) /\ k < Len(b) /\ a[Len(a) - k] = b[Len(b) - k]
    THEN common_suffix(a, b, k + 1) ELSE k

\* The length of the longest common subsequence: as rapidfuzz does, the
\* common prefix and suffix are counted and removed before the table is filled
lcs(a, b) ==
    LET p  == common_prefix(a, b, 1)
        a1 == SubSeq(a, p + 1, Len(a))
        b1 == SubSeq(b, p + 1, Len(b))
        q  == common_suffix(a1, b1, 0)
    IN  p + q + lcs_table(SubSeq(a1, 1, Len(a1) - q), SubSeq(b1, 1, Len(b1) - q))

\* fuzz.ratio: the normalized Indel similarity, 100 * 2*lcs / (len a + len b),
\* and 100 for two empty strings.  The score is the fraction num / den.
ratio(a, b) ==
    IF Len(a) + Len(b) = 0 THEN [num |-> 100, den |-> 1]
    ELSE [num |-> 200 * lcs(a, b), den |-> Len(a) + Len(b)]

\* fuzz.token_sort_ratio: the ratio of the strings with their tokens sorted
token_sort_ratio(a, b) ==
    ratio(join(<<" ">>, sorted(split(a, 1, <<>>))),
          join(<<" ">>, sorted(split(b, 1, <<>>))))

\* s > t and s >= t on scores
ScoreGreater(s, t) == s.num * t.den > t.num * s.den

\* process.extractOne: the first choice with the highest score.  best is the
\* index of the best choice so far and score its score.
RECURSIVE best_choice(_, _, _, _, _)
best_choice(query, choices, i, best, score) ==
    IF i > Len(choices)
    THEN [match |-> choices[best], score |-> score, idx |-> best]
    ELSE LET sc == token_sort_ratio(query, choices[i])
         IN  IF ScoreGreater(sc, score)
             THEN best_choice(query, choices, i + 1, i, sc)
             ELSE best_choice(query, choices, i + 1, best, score)

extractOne(query, choices) ==
    best_choice(query, choices, 2, 1, token_sort_ratio(query, choices[1]))

----------------------------------------------------------------------------
(* merge(): the registry and the per-record operation add(rec, src) *)

\* The processing order of the harvest loop: line 100
Sources == <<"pubmed", "openalex", "semanticscholar", "crossref", "orcid">>

\* The columns of a source row that add() reads
RawFields == {"doi", "DOI", "pmid", "put_code", "title", "Title", "url", "URL",
              "journal", "container", "venue", "authors", "year",
              "publication_year"}

\* The fields set_field() fuses, in the order of lines 87-94
Fields == <<"title", "doi", "pmid", "url", "journal", "venue", "authors", "year">>

\* weight: line 74
Weight(src) ==
    CASE src = "pubmed" -> 5
      [] src = "openalex" -> 4
      [] src = "semanticscholar" -> 3
      [] src = "crossref" -> 2
      [] src = "orcid" -> 1
      [] OTHER -> 0

\* The key prefixes of lines 50, 52, 54 and 61
DoiPrefix   == <<"d", "o", "i", ":">>
PmidPrefix  == <<"p", "m", "i", "d", ":">>
OrcidPrefix == <<"o", "r", "c", "i", "d", ":">>
FuzzyPrefix == <<"t", ":">>

\* Line 58 with > for >=
accepts_above(score) == score.num > 92 * score.den

\* score >= 92: line 58
accepts(score) == score.num >= 92 * score.den

\* Lines 42-46: the values add() reads from the row
row_doi(rec)      == strip(lower(Or(Or(rec["doi"], rec["DOI"]), <<>>)))
row_pmid(rec)     == strip(Or(rec["pmid"], <<>>))
row_put_code(rec) == strip(Or(rec["put_code"], <<>>))
row_title(rec)    == Or(Or(rec["title"], rec["Title"]), <<>>)
\* Lines 90-94: the values handed to set_field
row_url(rec)      == Or(rec["url"], rec["URL"])
row_journal(rec)  == Or(Or(Or(rec["journal"], rec["container"]), rec["venue"]), <<>>)
row_venue(rec)    == Or(Or(rec["venue"], rec["container"]), <<>>)
row_authors(rec)  == Or(rec["authors"], <<>>)
row_year(rec)     == Or(Or(rec["year"], rec["publication_year"]), <<>>)

\* Lines 55-59: the fuzzy path.  The key of the best previously minted title
\* when its score is accepted, else None (the empty string here), with the
\* score and index extractOne returned.
fuzzy_lookup(title_n, ts) ==
    IF ts # <<>>
    THEN LET m == extractOne(title_n, [i \in 1..Len(ts) |-> ts[i][1]])
         IN  [key |-> IF accepts(m.score) THEN ts[m.idx][2] ELSE <<>>,
              scored |-> TRUE, score |-> m.score, idx |-> m.idx]
    ELSE [key |-> <<>>, scored |-> FALSE, score |-> [num |-> 0, den |-> 1],
          idx |-> 0]

\* A key taken from an identifier: extractOne is not called
by_identifier(key) ==
    [key |-> key, scored |-> FALSE, score |-> [num |-> 0, den |-> 1], idx |-> 0]

\* Lines 48-59 without the test src == "orcid" of line 53
resolve_key_any_source(rec, src, ts) ==
    LET doi      == row_doi(rec)
        pmid     == row_pmid(rec)
        put_code == row_put_code(rec)
    IN  IF doi # <<>> THEN by_identifier(DoiPrefix \o doi)
        ELSE IF pmid # <<>> THEN by_identifier(PmidPrefix \o pmid)
        ELSE IF put_code # <<>> THEN by_identifier(OrcidPrefix \o put_code)
        ELSE fuzzy_lookup(norm(row_title(rec)), ts)

\* Lines 48-59 with the title tried first and the identifiers after it
resolve_key_title_first(rec, src, ts) ==
    LET doi      == row_doi(rec)
        pmid     == row_pmid(rec)
        put_code == row_put_code(rec)
        found    == fuzzy_lookup(norm(row_title(rec)), ts)
    IN  IF found.key # <<>> THEN found
        ELSE IF doi # <<>> THEN [found EXCEPT !.key = DoiPrefix \o doi]
        ELSE IF pmid # <<>> THEN [found EXCEPT !.key = PmidPrefix \o pmid]
        ELSE IF put_code # <<>> /\ src = "orcid"
             THEN [found EXCEPT !.key = OrcidPrefix \o put_code]
        ELSE found

\* Lines 48-59 with the PMID tried before the DOI
resolve_key_pmid_first(rec, src, ts) ==
    LET doi      == row_doi(rec)
        pmid     == row_pmid(rec)
        put_code == row_put_code(rec)
    IN  IF pmid # <<>> THEN by_identifier(PmidPrefix \o pmid)
        ELSE IF doi # <<>> THEN by_identifier(DoiPrefix \o doi)
        ELSE IF put_code # <<>> /\ src = "orcid"
             THEN by_identifier(OrcidPrefix \o put_code)
        ELSE fuzzy_lookup(norm(row_title(rec)), ts)

\* Lines 48-59: the priority chain.  scored says whether extractOne was
\* called, score and idx what it returned.
resolve_key(rec, src, ts) ==
    LET doi      == row_doi(rec)
        pmid     == row_pmid(rec)
        put_code == row_put_code(rec)
    IN  IF doi # <<>> THEN by_identifier(DoiPrefix \o doi)
        ELSE IF pmid # <<>> THEN by_identifier(PmidPrefix \o pmid)
        ELSE IF put_code # <<>> /\ src = "orcid"
             THEN by_identifier(OrcidPrefix \o put_code)
        ELSE fuzzy_lookup(norm(row_title(rec)), ts)

\* Lines 60-62 with line 62 outside the if: every title is listed
mint_lists_all(r, rec, cn, ts) ==
    IF r.key = <<>>
    THEN LET key == FuzzyPrefix \o str(Len(cn) + 1)
         IN  [key |-> key, minted |-> TRUE,
              titles |-> Append(ts, <<norm(row_title(rec)), key>>)]
    ELSE [key |-> r.key, minted |-> FALSE,
          titles |-> Append(ts, <<norm(row_title(rec)), r.key>>)]

\* Lines 60-62 with the ordinal taken once, before the loops: always 1
mint_first_ordinal(r, rec, cn, ts) ==
    IF r.key = <<>>
    THEN LET key == FuzzyPrefix \o str(1)
         IN  [key |-> key, minted |-> TRUE,
              titles |-> Append(ts, <<norm(row_title(rec)), key>>)]
    ELSE [key |-> r.key, minted |-> FALSE, titles |-> ts]

\* Lines 60-62 with the title of a key in titles replaced by the title of
\* every row that joins the key
mint_updates_title(r, rec, cn, ts) ==
    IF r.key = <<>>
    THEN LET key == FuzzyPrefix \o str(Len(cn) + 1)
         IN  [key |-> key, minted |-> TRUE,
              titles |-> Append(ts, <<norm(row_title(rec)), key>>)]
    ELSE [key |-> r.key, minted |-> FALSE,
          titles |-> [i \in 1..Len(ts) |->
                        IF ts[i][2] = r.key
                        THEN <<norm(row_title(rec)), r.key>> ELSE ts[i]]]

\* Lines 60-62: a record left without a key gets a fresh one, and only then
\* is its normalized title added to titles.
mint(r, rec, cn, ts) ==
    IF r.key = <<>>
    THEN LET key == FuzzyPrefix \o str(Len(cn) + 1)
         IN  [key |-> key, minted |-> TRUE,
              titles |-> Append(ts, <<norm(row_title(rec)), key>>)]
    ELSE [key |-> r.key, minted |-> FALSE, titles |-> ts]

\* canon is an OrderedDict: the records in the order their keys were inserted
has_key(cn, key) == \E i \in 1..Len(cn) : cn[i].key = key
index_of(cn, key) == CHOOSE i \in 1..Len(cn) : cn[i].key = key

\* Lines 64-70: canon.get(key, {...})
new_base(key, rec) ==
    [key |-> key, title |-> row_title(rec), year |-> <<>>,
     journal |-> <<>>, venue |-> <<>>, authors |-> <<>>,
     doi |-> row_doi(rec), pmid |-> row_pmid(rec), url |-> row_url(rec),
     sources |-> {}, provenance |-> <<>>]

canon_get(cn, key, rec) ==
    IF has_key(cn, key) THEN cn[index_of(cn, key)] ELSE new_base(key, rec)

\* base["provenance"][field] = src on a dict that keeps insertion order
prov_set(p, field, src) ==
    IF \E i \in 1..Len(p) : p[i][1] = field
    THEN [p EXCEPT ![CHOOSE i \in 1..Len(p) : p[i][1] = field] = <<field, src>>]
    ELSE Append(p, <<field, src>>)

\* Lines 75-85 with the weight test of line 83 also put on the fill of line 78
set_field_gated_fill(base, field, value, src, weight) ==
    IF value = <<>> THEN base
    ELSE IF base[field] = <<>> /\ weight >= 3
         THEN [base EXCEPT ![field] = value,
                           !.provenance = prov_set(@, field, src)]
    ELSE IF /\ base[field] # <<>>
            /\ field \in {"title", "journal", "venue", "authors"}
            /\ Len(value) > Len(base[field])
            /\ weight >= 3
         THEN [base EXCEPT ![field] = value,
                           !.provenance = prov_set(@, field, src)]
    ELSE base

\* Lines 75-85 as a plain assignment base[field] = value
set_field_assign(base, field, value, src, weight) ==
    [base EXCEPT ![field] = value, !.provenance = prov_set(@, field, src)]

\* Lines 75-85 with "non-empty wins": every non-empty value is taken
set_field_last_wins(base, field, value, src, weight) ==
    IF value = <<>> THEN base
    ELSE [base EXCEPT ![field] = value, !.provenance = prov_set(@, field, src)]

\* Lines 75-85 with weight >= 2 for weight >= 3 in line 83
set_field_weight_2(base, field, value, src, weight) ==
    IF value = <<>> THEN base
    ELSE IF base[field] = <<>>
         THEN [base EXCEPT ![field] = value,
                           !.provenance = prov_set(@, field, src)]
    ELSE IF /\ field \in {"title", "journal", "venue", "authors"}
            /\ Len(value) > Len(base[field])
            /\ weight >= 2
         THEN [base EXCEPT ![field] = value,
                           !.provenance = prov_set(@, field, src)]
    ELSE base

\* Lines 75-85 without the weight test of line 83
set_field_longer_wins(base, field, value, src, weight) ==
    IF value = <<>> THEN base
    ELSE IF base[field] = <<>>
         THEN [base EXCEPT ![field] = value,
                           !.provenance = prov_set(@, field, src)]
    ELSE IF /\ field \in {"title", "journal", "venue", "authors"}
            /\ Len(value) > Len(base[field])
         THEN [base EXCEPT ![field] = value,
                           !.provenance = prov_set(@, field, src)]
    ELSE base

\* Lines 75-85 with weight > 3 for weight >= 3 in line 83
set_field_weight_above_3(base, field, value, src, weight) ==
    IF value = <<>> THEN base
    ELSE IF base[field] = <<>>
         THEN [base EXCEPT ![field] = value,
                           !.provenance = prov_set(@, field, src)]
    ELSE IF /\ field \in {"title", "journal", "venue", "authors"}
            /\ Len(value) > Len(base[field])
            /\ weight > 3
         THEN [base EXCEPT ![field] = value,
                           !.provenance = prov_set(@, field, src)]
    ELSE base

\* Lines 75-85 with len(value) < len(cur) in line 83
set_field_shorter_wins(base, field, value, src, weight) ==
    IF value = <<>> THEN base
    ELSE IF base[field] = <<>>
         THEN [base EXCEPT ![field] = value,
                           !.provenance = prov_set(@, field, src)]
    ELSE IF /\ field \in {"title", "journal", "venue", "authors"}
            /\ Len(value) < Len(base[field])
            /\ weight >= 3
         THEN [base EXCEPT ![field] = value,
                           !.provenance = prov_set(@, field, src)]
    ELSE base

\* Lines 75-85
set_field(base, field, value, src, weight) ==
    IF value = <<>> THEN base
    ELSE IF base[field] = <<>>
         THEN [base EXCEPT ![field] = value,
                           !.provenance = prov_set(@, field, src)]
    ELSE IF /\ field \in {"title", "journal", "venue", "authors"}
            /\ Len(value) > Len(base[field])
            /\ weight >= 3
         THEN [base EXCEPT ![field] = value,
                           !.provenance = prov_set(@, field, src)]
    ELSE base

\* The value add() hands to set_field for each field: lines 87-94
row_value(rec, field) ==
    CASE field = "title"   -> row_title(rec)
      [] field = "doi"     -> row_doi(rec)
      [] field = "pmid"    -> row_pmid(rec)
      [] field = "url"     -> row_url(rec)
      [] field = "journal" -> row_journal(rec)
      [] field = "venue"   -> row_venue(rec)
      [] field = "authors" -> row_authors(rec)
      [] field = "year"    -> row_year(rec)

\* Lines 87-94: the eight calls of set_field, in order
RECURSIVE set_fields(_, _, _, _)
set_fields(base, rec, src, i) ==
    IF i > Len(Fields) THEN base
    ELSE set_fields(set_field(base, Fields[i], row_value(rec, Fields[i]),
                              src, Weight(src)),
                    rec, src, i + 1)

\* Line 96 as base["sources"] = {src}
add_source_replace(base, src) == [base EXCEPT !.sources = {src}]

\* Line 96: base["sources"].add(src)
add_source(base, src) == [base EXCEPT !.sources = @ \cup {src}]

\* Line 97 as rows.append(base): a record is added on every merge
canon_put_append(cn, key, base) == Append(cn, base)

\* Line 97 as a dict whose updated key moves to the end (move_to_end)
canon_put_moves(cn, key, base) ==
    Append(SelectSeq(cn, LAMBDA v : v.key # key), base)

\* Line 97: canon[key] = base keeps the place of a key already present
canon_put(cn, key, base) ==
    IF has_key(cn, key) THEN [cn EXCEPT ![index_of(cn, key)] = base]
    ELSE Append(cn, base)

\* Lines 41-97: add(rec, src) on the registry (cn, ts).  Beside the registry
\* the result holds the locals of the call: key, whether extractOne was called
\* and the score and index it returned, whether a key was minted, and base
\* as line 64 fetched it (existed: from canon, else the fresh default).
add(rec, src, cn, ts) ==
    LET found == resolve_key(rec, src, ts)
        r     == mint(found, rec, cn, ts)
        base  == add_source(set_fields(canon_get(cn, r.key, rec), rec, src, 1), src)
    IN  [canon |-> canon_put(cn, r.key, base), titles |-> r.titles,
         key |-> r.key, scored |-> found.scored, score |-> found.score,
         idx |-> found.idx, minted |-> r.minted,
         existed |-> has_key(cn, r.key), base |-> canon_get(cn, r.key, rec)]

----------------------------------------------------------------------------
(* The writer: lines 104-118 *)

\* The text of a source tag and of a field name
TagText(tag) ==
    CASE tag = "pubmed" -> <<"p","u","b","m","e","d">>
      [] tag = "openalex" -> <<"o","p","e","n","a","l","e","x">>
      [] tag = "semanticscholar" ->
            <<"s","e","m","a","n","t","i","c","s","c","h","o","l","a","r">>
      [] tag = "crossref" -> <<"c","r","o","s","s","r","e","f">>
      [] tag = "orcid" -> <<"o","r","c","i","d">>

FieldText(f) ==
    CASE f = "title" -> <<"t","i","t","l","e">>
      [] f = "doi" -> <<"d","o","i">>
      [] f = "pmid" -> <<"p","m","i","d">>
      [] f = "url" -> <<"u","r","l">>
      [] f = "journal" -> <<"j","o","u","r","n","a","l">>
      [] f = "venue" -> <<"v","e","n","u","e">>
      [] f = "authors" -> <<"a","u","t","h","o","r","s">>
      [] f = "year" -> <<"y","e","a","r">>

\* The elements of a set of tags as a sequence, in any order, for sorted()
RECURSIVE tag_texts(_)
tag_texts(S) ==
    IF S = {} THEN <<>>
    ELSE LET t == CHOOSE t \in S : TRUE
         IN  <<TagText(t)>> \o tag_texts(S \ {t})

\* Line 106 without sorted(): the tags in the order in which they were added
join_sources_unsorted(S) ==
    join(<<",">>,
         LET pick[k \in 0..Len(Sources)] ==
                 IF k = 0 THEN <<>>
                 ELSE IF Sources[k] \in S
                      THEN Append(pick[k - 1], TagText(Sources[k]))
                      ELSE pick[k - 1]
         IN  pick[Len(Sources)])

\* Line 106: ",".join(sorted(v["sources"]))
join_sources(S) == join(<<",">>, sorted(tag_texts(S)))

\* Line 108: json.dumps(v["provenance"]), the items in insertion order
RECURSIVE json_items(_)
json_items(p) ==
    IF p = <<>> THEN <<>>
    ELSE <<(<<"\"">> \o FieldText(p[1][1]) \o <<"\"", ":", " ", "\"">>
            \o TagText(p[1][2]) \o <<"\"">>)>> \o json_items(Tail(p))

json_dumps(p) == <<"{">> \o join(<<",", " ">>, json_items(p)) \o <<"}">>

\* Lines 105-109: v is the record of canon itself, changed in place
write_row(v) == [v EXCEPT !.sources = join_sources(@),
                          !.provenance = json_dumps(@)]

\* The columns of the output: line 111
OutFields == <<"title", "year", "journal", "venue", "authors", "doi", "pmid",
               "url", "sources", "provenance">>

\* The keys of a record, in the order of the dict of lines 64-70
BaseKeys == <<"key", "title", "year", "journal", "venue", "authors", "doi",
              "pmid", "url", "sources", "provenance">>

\* Lines 114-115: a record of the CSV file, the columns of fields under the
\* header, each with r.get(k, "")
csv_record(r) == [k \in 1..Len(OutFields) |-> <<OutFields[k], r[OutFields[k]]>>]

\* Line 118: json.dumps(r), every key of the dict r in its insertion order
jsonl_record(r) == [k \in 1..Len(BaseKeys) |-> <<BaseKeys[k], r[BaseKeys[k]]>>]

----------------------------------------------------------------------------
(* The loader: lines 24-31 *)

SourceSet == {Sources[i] : i \in 1..Len(Sources)}

\* A file of FILES: absent, present with its rows, or present and not
\* readable (open() or the csv reader raises)
AbsentFile     == [state |-> "absent", rows |-> <<>>]
UnreadableFile == [state |-> "unreadable", rows |-> <<>>]
FileOf(rs)     == [state |-> "present", rows |-> rs]

\* Lines 26-30 return: no file that exists fails to open and parse
can_load(fs) == \A s \in SourceSet : fs[s].state # "unreadable"

\* load_rows(): [] for a file that does not exist, else the rows of the file
load_rows(fs) ==
    [s \in SourceSet |-> IF fs[s].state = "absent" THEN <<>> ELSE fs[s].rows]

\* Lines 38-39 left out: canon and titles are what they were
new_registry_kept(cn, ts) ==
    [canon |-> [i \in 1..Len(cn) |->
                  [cn[i] EXCEPT !.sources = {}, !.provenance = <<>>]],
     titles |-> ts]

\* Lines 38-39: canon = OrderedDict(), titles = []
new_registry(cn, ts) == [canon |-> <<>>, titles |-> <<>>]

----------------------------------------------------------------------------
(* The rows the sources may hold *)

\* The most rows one run reads
MaxRecs == 2

EmptyRow == [f \in RawFields |-> <<>>]

\* The chars c, k times
Rep(c, k) == [i \in 1..k |-> c]

\* "10.1/x": as it is, with an upper-case letter and leading whitespace, and
\* written as a URL
DoiPlain == <<"1", "0", ".", "1", "/", "x">>
DoiUpper == <<" ", "1", "0", ".", "1", "/", "X">>
DoiUrl   == <<"h","t","t","p","s",":","/","/","d","o","i",".","o","r","g","/">>
            \o DoiPlain

Pmid1 == <<"1", "1", "1">>
Pmid2 == <<"2", "2", "2">>
PutCode == <<"7">>

\* Free-text values: two of the same length, and a longer one
TextA == <<"A", "b">>
TextC == <<"c", "d">>
TextB == <<"a", "b", " ", "c", "d">>

\* Rows that differ in which identifiers they carry
IdentityRows ==
    { [EmptyRow EXCEPT !["doi"] = d, !["pmid"] = p, !["put_code"] = k,
                       !["title"] = t] :
        d \in {<<>>, DoiUpper, DoiUrl}, p \in {<<>>, Pmid1},
        k \in {<<>>, PutCode}, t \in {<<>>, TextA} }
    \cup { [EmptyRow EXCEPT !["DOI"] = DoiUpper] }

\* Rows of one publication (DoiPlain) that each fill one more column
PayloadRows ==
    { [EmptyRow EXCEPT !["doi"] = DoiPlain, ![f] = v] :
        f \in {"title", "journal", "venue", "authors"},
        v \in {<<>>, TextA, TextB} }
    \cup
    { [EmptyRow EXCEPT !["doi"] = DoiPlain, ![f] = TextC] :
        f \in {"title", "journal"} }
    \cup
    { [EmptyRow EXCEPT !["doi"] = DoiPlain, !["pmid"] = v] :
        v \in {Pmid1, Pmid2, Pmid1 \o Pmid2} }
    \cup
    { [EmptyRow EXCEPT !["doi"] = DoiPlain, ![f] = v] :
        f \in {"url", "year"}, v \in {Pmid1, Pmid1 \o Pmid2} }
    \cup
    { [EmptyRow EXCEPT !["doi"] = DoiPlain, ![f] = TextB] :
        f \in {"Title", "URL", "container", "publication_year"} }

\* Titles whose scores lie on both sides of the threshold: TitleP and TitleQ
\* score 92 (2*23/50), TitleS and TitleT 91.67 (2*11/24), TitleP and TitleS
\* 64.9 (2*12/37); TitleU and TitleV have the same tokens in another order.
TitleP == Rep("a", 23) \o <<"b", "b">>
TitleQ == Rep("a", 23) \o <<"c", "c">>
TitleS == Rep("a", 11) \o <<"b">>
TitleT == Rep("a", 11) \o <<"c">>
TitleU == <<" ", "A", " ", "\t", "b">>
TitleV == <<"b", " ", "a">>

\* Rows without identifier, and one row with a DOI
FuzzyRows ==
    { [EmptyRow EXCEPT !["title"] = t] :
        t \in {<<>>, TitleP, TitleQ, TitleS, TitleT, TitleU, TitleV} }
    \cup { [EmptyRow EXCEPT !["put_code"] = PutCode, !["title"] = TitleP],
           [EmptyRow EXCEPT !["doi"] = DoiPlain, !["title"] = TitleP] }

\* The rows of the end-to-end scenario of the specification, and the same
\* rows without year and without journal
ExampleShortTitle ==
    <<"C", "r", "a", "n", "i", "o", "f", "a", "c", "i", "a", "l", " ", "S",
      "u", "r", "g", "e", "r", "y", " ", "O", "u", "t", "c", "o", "m", "e",
      "s">>
ExampleLongTitle ==
    ExampleShortTitle
    \o <<":", " ", "A", " ", "R", "e", "t", "r", "o", "s", "p", "e", "c", "t",
      "i", "v", "e", " ", "S", "t", "u", "d", "y">>
ExampleDoi == <<"1", "0", ".", "1", "0", "0", "0", "/", "a", "b", "c">>
ExampleDoiUpper == <<"1", "0", ".", "1", "0", "0", "0", "/", "A", "B", "C">>
ExampleYear == <<"2", "0", "1", "9">>
ExampleJournal == <<"J", " ", "S", "u", "r", "g">>

ExamplePubmedRow ==
    [EmptyRow EXCEPT !["title"] = ExampleShortTitle, !["doi"] = ExampleDoi,
                     !["year"] = ExampleYear]
ExampleCrossrefRow ==
    [EmptyRow EXCEPT !["title"] = ExampleLongTitle, !["doi"] = ExampleDoiUpper,
                     !["journal"] = ExampleJournal]

ExampleRows ==
    { ExamplePubmedRow, ExampleCrossrefRow,
      [ExamplePubmedRow EXCEPT !["year"] = <<>>],
      [ExampleCrossrefRow EXCEPT !["journal"] = <<>>] }

\* The most rows the files of one snapshot hold
MaxRunRecs == 3

\* Rows of whole runs: two of one publication, and two without identifier
\* whose titles are too far apart to match (score 57.1)
RunRows ==
    { [EmptyRow EXCEPT !["doi"] = DoiPlain, !["title"] = TextA,
                       !["journal"] = TextA],
      [EmptyRow EXCEPT !["doi"] = DoiPlain, !["title"] = TextB,
                       !["authors"] = TextA],
      [EmptyRow EXCEPT !["title"] = TextB],
      [EmptyRow EXCEPT !["title"] = TextA] }

\* The files that hold the rows recs, recs[i] in the file of Sources[srcs[i]],
\* the file of Sources[bad] (if any) being missing
files_of(srcs, recs, bad, missing) ==
    [s \in SourceSet |->
        IF bad > 0 /\ s = Sources[bad] THEN missing
        ELSE FileOf(LET at == {i \in 1..Len(recs) : Sources[srcs[i]] = s}
                        pick[k \in 0..Len(recs)] ==
                            IF k = 0 THEN <<>>
                            ELSE IF k \in at THEN Append(pick[k - 1], recs[k])
                            ELSE pick[k - 1]
                    IN  pick[Len(recs)])]

\* The places of k rows in the files other than that of Sources[bad], in the
\* order of the sources
run_places(k, bad) ==
    { f \in [1..k -> 1..Len(Sources)] :
        \A i \in 1..k : /\ f[i] # bad
                        /\ i > 1 => f[i - 1] <= f[i] }

----------------------------------------------------------------------------
(* The run *)

\* last is the latest call of add: its row and source, and its locals;
\* raised says that the call ended in an exception of extractOne
NoRecord == [rec |-> EmptyRow, src |-> "", key |-> <<>>, scored |-> FALSE,
             score |-> [num |-> 0, den |-> 1], idx |-> 0,
             minted |-> FALSE, existed |-> FALSE,
             base |-> new_base(<<>>, EmptyRow), raised |-> FALSE]

\* What no run has written yet
NoOutput == [written |-> FALSE, canon |-> <<>>, csv |-> <<>>, jsonl |-> <<>>]

\* The tools have not run: the state of each is empty
MasterIdle ==
    /\ all_df = <<>>
    /\ openalex = [state |-> "absent", rows |-> <<>>]
    /\ master = <<>>
    /\ out = <<>>

GenerateIdle ==
    /\ present = {}
    /\ fi = 0
    /\ records = <<>>
    /\ master_csv = <<>>

WpIdle ==
    /\ listing = <<>>
    /\ args = [per_page |-> 1, max_posts |-> 1, save_every |-> 1]
    /\ state = [rest_page |-> 0, completed |-> 0]
    /\ run = [page |-> 0, collected |-> 0, batch |-> <<>>, j |-> <<>>, it |-> 0]
    /\ wp_state = [rest_page |-> 0, completed |-> 0]
    /\ wp_csv = <<>>

\* merge() after lines 37-39, over files that are all there and whose rows
\* are drawn when the loops reach them: data holds the rows read so far
Init ==
    /\ files = [s \in SourceSet |-> FileOf(<<>>)]
    /\ data = [s \in SourceSet |-> <<>>]
    /\ canon = <<>>
    /\ titles = <<>>
    /\ si = 1
    /\ ri = 0
    /\ n = 0
    /\ last = NoRecord
    /\ pc = "harvest"
    /\ rows = <<>>
    /\ csv = <<>>
    /\ jsonl = <<>>
    /\ past = NoOutput
    /\ MasterIdle /\ GenerateIdle /\ WpIdle

\* merge() is called on a snapshot of at most MaxRunRecs rows with at most one
\* file missing
InitRun ==
    /\ \E k \in 0..MaxRunRecs, bad \in 0..Len(Sources) :
          \E srcs \in run_places(k, bad), recs \in [1..k -> RunRows],
             missing \in {AbsentFile, UnreadableFile} :
                files = files_of(srcs, recs, bad, missing)
    /\ data = [s \in SourceSet |-> <<>>]
    /\ canon = <<>>
    /\ titles = <<>>
    /\ si = 1
    /\ ri = 0
    /\ n = 0
    /\ last = NoRecord
    /\ pc = "load"
    /\ rows = <<>>
    /\ csv = <<>>
    /\ jsonl = <<>>
    /\ past = NoOutput
    /\ MasterIdle /\ GenerateIdle /\ WpIdle

\* Lines 37-39: load_rows() returns and the registry starts empty, or
\* load_rows() raises and merge() ends
LoadRows ==
    /\ pc = "load"
    /\ IF can_load(files)
       THEN /\ data' = load_rows(files)
            /\ \E reg \in {new_registry(canon, titles)} :
                  /\ canon' = reg.canon
                  /\ titles' = reg.titles
            /\ pc' = "harvest"
       ELSE /\ pc' = "failed"
            /\ UNCHANGED <<data, canon, titles>>
    /\ si' = 1
    /\ ri' = 0
    /\ n' = 0
    /\ last' = NoRecord
    /\ rows' = <<>>
    /\ UNCHANGED <<files, csv, jsonl, past>>
    /\ UNCHANGED toolVars

\* Line 102: add(rec, src) for row k of source j
Merge(j, k, rec) ==
    /\ \E a \in {add(rec, Sources[j], canon, titles)} :
           /\ canon' = a.canon
           /\ titles' = a.titles
           /\ last' = [rec |-> rec, src |-> Sources[j], key |-> a.key,
                       scored |-> a.scored, score |-> a.score, idx |-> a.idx,
                       minted |-> a.minted, existed |-> a.existed,
                       base |-> a.base, raised |-> FALSE]
    /\ si' = j
    /\ ri' = k
    /\ n' = n + 1
    /\ UNCHANGED <<pc, rows, csv, jsonl, past>>
    /\ UNCHANGED toolVars

\* Lines 100-102: the loops reach their next row, a row of the current source
\* or, the sources in between being exhausted, of a later one, and merge it.
\* The row is drawn here: it is the next row of its file.
AddRecord(j, rec) ==
    /\ pc = "harvest"
    /\ n < MaxRecs
    /\ files' = [files EXCEPT ![Sources[j]].rows = Append(@, rec)]
    /\ data' = [data EXCEPT ![Sources[j]] = Append(@, rec)]
    /\ Merge(j, Len(data[Sources[j]]) + 1, rec)

\* The places of data after row ri of source si, in the order of the loops
Later(d, j0, k0) ==
    {p \in UNION { {<<j, k>> : k \in 1..Len(d[Sources[j]])} :
                    j \in j0..Len(Sources) } :
        p[1] = j0 => p[2] > k0}

\* Lines 100-101 in the reverse order of the sources
next_place_reversed(d, j0, k0) ==
    CHOOSE p \in Later(d, j0, k0) :
        \A q \in Later(d, j0, k0) : q[1] < p[1] \/ (q[1] = p[1] /\ q[2] >= p[2])

\* Lines 100-101: the next place is the first of them
next_place(d, j0, k0) ==
    CHOOSE p \in Later(d, j0, k0) :
        \A q \in Later(d, j0, k0) : p[1] < q[1] \/ (p[1] = q[1] /\ p[2] <= q[2])

\* Lines 100-102 over the loaded data
MergeNext ==
    /\ pc = "harvest"
    /\ Later(data, si, ri) # {}
    /\ \E p \in {next_place(data, si, ri)} :
          Merge(p[1], p[2], data[Sources[p[1]]][p[2]])
    /\ UNCHANGED <<files, data>>

\* Line 57 raises for a row that reaches it: nothing catches the exception,
\* which ends add() and merge()
ScoringRaises(j, rec) ==
    /\ pc = "harvest"
    /\ n < MaxRecs
    /\ titles # <<>>
    /\ (resolve_key(rec, Sources[j], titles)).scored
    /\ files' = [files EXCEPT ![Sources[j]].rows = Append(@, rec)]
    /\ data' = [data EXCEPT ![Sources[j]] = Append(@, rec)]
    /\ si' = j
    /\ ri' = Len(data[Sources[j]]) + 1
    /\ last' = [NoRecord EXCEPT !.rec = rec, !.src = Sources[j],
                                !.scored = TRUE, !.raised = TRUE]
    /\ pc' = "failed"
    /\ UNCHANGED <<canon, titles, n, rows, csv, jsonl, past>>
    /\ UNCHANGED toolVars

\* Lines 104-118: no row is left; every record is flattened in place, and the
\* two files are written
Write ==
    /\ pc = "harvest"
    /\ Later(data, si, ri) = {}
    /\ canon' = [i \in 1..Len(canon) |-> write_row(canon[i])]
    /\ rows' = [i \in 1..Len(canon) |-> write_row(canon[i])]
    /\ csv' = [i \in 1..Len(canon) |-> csv_record(write_row(canon[i]))]
    /\ jsonl' = [i \in 1..Len(canon) |-> jsonl_record(write_row(canon[i]))]
    /\ pc' = "done"
    /\ UNCHANGED <<files, data, titles, si, ri, n, last, past>>
    /\ UNCHANGED toolVars

\* merge() is called again on the same files; what the run before wrote is
\* still there
RunAgain ==
    /\ pc = "done"
    /\ ~past.written
    /\ past' = [written |-> TRUE, canon |-> canon, csv |-> csv, jsonl |-> jsonl]
    /\ pc' = "load"
    /\ UNCHANGED <<files, data, canon, titles, si, ri, n, last, rows, csv, jsonl>>
    /\ UNCHANGED toolVars

AddIdentityRow ==
    \E j \in si..Len(Sources) : \E rec \in IdentityRows : AddRecord(j, rec)

AddPayloadRow ==
    \E j \in si..Len(Sources) : \E rec \in PayloadRows : AddRecord(j, rec)

AddFuzzyRow ==
    \E j \in si..Len(Sources) : \E rec \in FuzzyRows : AddRecord(j, rec)

FuzzyRowRaises ==
    \E j \in si..Len(Sources) : \E rec \in FuzzyRows : ScoringRaises(j, rec)

AddExampleRow ==
    \E j \in si..Len(Sources) : \E rec \in ExampleRows : AddRecord(j, rec)

\* A run over rows that differ in their identifiers
Next == AddIdentityRow \/ Write

Spec == Init /\ [][Next]_vars

\* A run over rows of one publication
NextMerge == AddPayloadRow \/ Write

SpecMerge == Init /\ [][NextMerge]_vars

\* A run over rows without identifier
NextFuzzy == AddFuzzyRow \/ Write

SpecFuzzy == Init /\ [][NextFuzzy]_vars

\* A run over rows without identifier in which extractOne may raise
NextRaise == AddFuzzyRow \/ FuzzyRowRaises \/ Write

SpecRaise == Init /\ [][NextRaise]_vars

\* A run over the rows of the end-to-end scenario
NextExample == AddExampleRow \/ Write

SpecExample == Init /\ [][NextExample]_vars

\* Two runs of merge() over one snapshot of the files
NextRun == LoadRows \/ MergeNext \/ Write \/ RunAgain

SpecRun == InitRun /\ [][NextRun]_vars

----------------------------------------------------------------------------
(* Properties of the identity resolver *)

IsPrefixOf(p, s) == Len(s) >= Len(p) /\ SubSeq(s, 1, Len(p)) = p

IsFuzzyKey(key) == IsPrefixOf(FuzzyPrefix, key)

\* The record at a key of canon
RecordAt(cn, key) == cn[CHOOSE i \in 1..Len(cn) : cn[i].key = key]

\* A row without identifier: no DOI, no PMID and, from orcid, no put_code
OnFuzzyPath(rec, src) ==
    /\ row_doi(rec) = <<>>
    /\ row_pmid(rec) = <<>>
    /\ ~(src = "orcid" /\ row_put_code(rec) # <<>>)

\* C1: the key of every merged row follows the priority chain: doi:<doi> when
\* the row's lower-cased, trimmed doi is non-empty; else pmid:<pmid> when its
\* trimmed pmid is non-empty; else orcid:<put_code> when the row is from orcid
\* and its put_code is non-empty; else a fuzzy key.  A row of another source
\* that carries only a put_code therefore never gets an orcid: key.
C1_PriorityChain ==
    n > 0 =>
        IF row_doi(last.rec) # <<>>
        THEN last.key = DoiPrefix \o row_doi(last.rec)
        ELSE IF row_pmid(last.rec) # <<>>
        THEN last.key = PmidPrefix \o row_pmid(last.rec)
        ELSE IF last.src = "orcid" /\ row_put_code(last.rec) # <<>>
        THEN last.key = OrcidPrefix \o row_put_code(last.rec)
        ELSE IsFuzzyKey(last.key) /\ ~IsPrefixOf(OrcidPrefix, last.key)

\* A crossref row with only a put_code and a title was given a fuzzy key, and
\* an orcid row with the same put_code an orcid: key.
C1_Witness ==
    /\ n = 2
    /\ last.src = "orcid"
    /\ last.rec = [EmptyRow EXCEPT !["put_code"] = PutCode]
    /\ last.key = OrcidPrefix \o PutCode
    /\ Len(canon) = 2
    /\ IsFuzzyKey(canon[1].key)
    /\ canon[1].sources = {"crossref"}
    /\ canon[1].title = TextA

\* The DOI normalization of the specification: lower-cased, trimmed, and a
\* leading https://doi.org/ or http://dx.doi.org/ removed
HttpsDoiOrg == <<"h","t","t","p","s",":","/","/","d","o","i",".","o","r","g","/">>
HttpDxDoiOrg == <<"h","t","t","p",":","/","/","d","x",".","d","o","i",".","o","r","g","/">>

StripDoiUrl(d) ==
    IF IsPrefixOf(HttpsDoiOrg, d) THEN SubSeq(d, Len(HttpsDoiOrg) + 1, Len(d))
    ELSE IF IsPrefixOf(HttpDxDoiOrg, d) THEN SubSeq(d, Len(HttpDxDoiOrg) + 1, Len(d))
    ELSE d

NormalizedDoi(d) == strip(StripDoiUrl(strip(lower(d))))

\* C2: a merged row whose DOI, normalized as the specification says, is
\* non-empty and equal to the normalized DOI of a canonical record has that
\* record's key, and no two canonical records hold the same normalized DOI.
C2_SameDoiSameKey ==
    /\ n > 0 =>
         \A i \in 1..Len(canon) :
            (/\ NormalizedDoi(Or(last.rec["doi"], last.rec["DOI"])) # <<>>
             /\ NormalizedDoi(canon[i].doi)
                  = NormalizedDoi(Or(last.rec["doi"], last.rec["DOI"])))
            => canon[i].key = last.key
    /\ \A i, j \in 1..Len(canon) :
            (/\ NormalizedDoi(canon[i].doi) # <<>>
             /\ NormalizedDoi(canon[i].doi) = NormalizedDoi(canon[j].doi))
            => i = j

\* C3: a row with a DOI or a PMID gets the key of that identifier, never a
\* fuzzy key; extractOne is not called for it and titles is left as it was.
C3_IdentifierPrecedence ==
    [][(n' = n + 1 /\ (row_doi(last'.rec) # <<>> \/ row_pmid(last'.rec) # <<>>))
        => /\ ~IsFuzzyKey(last'.key)
           /\ \A i \in 1..Len(titles) : titles[i][2] # last'.key
           /\ last'.key \in {DoiPrefix \o row_doi(last'.rec),
                             PmidPrefix \o row_pmid(last'.rec)}
           /\ ~last'.scored
           /\ ~last'.minted
           /\ titles' = titles]_vars

\* A row with a DOI and the title of an existing fuzzy-keyed record was merged
\* under its doi: key, beside that record.
C3_Witness ==
    /\ n = 2
    /\ row_doi(last.rec) # <<>>
    /\ Len(canon) = 2
    /\ IsFuzzyKey(canon[1].key)
    /\ canon[1].title = row_title(last.rec)
    /\ canon[1].title # <<>>
    /\ titles = << <<norm(row_title(last.rec)), canon[1].key>> >>
    /\ canon[2].key = last.key
    /\ IsPrefixOf(DoiPrefix, last.key)

ScoreAtLeast92(sc) == sc.num >= 92 * sc.den

\* C4: for a row without identifier, when titles is not empty extractOne is
\* called and returns a title that no other title of titles outscores; when
\* its score is at least 92 the row gets that title's key and titles stays
\* as it was; otherwise (a lower best score, or no title yet) the row gets
\* a new fuzzy key, different from every key of canon, and its normalized
\* title is appended to titles.
C4_FuzzyThreshold ==
    [][(n' = n + 1 /\ OnFuzzyPath(last'.rec, last'.src))
        => \A q \in {norm(row_title(last'.rec))} :
               /\ last'.scored = (titles # <<>>)
               /\ last'.scored =>
                    /\ last'.idx \in 1..Len(titles)
                    /\ last'.score = token_sort_ratio(q, titles[last'.idx][1])
                    /\ \A j \in 1..Len(titles) :
                          ~ScoreGreater(token_sort_ratio(q, titles[j][1]),
                                        last'.score)
               /\ IF last'.scored /\ ScoreAtLeast92(last'.score)
                  THEN /\ last'.key = titles[last'.idx][2]
                       /\ ~last'.minted
                       /\ titles' = titles
                  ELSE /\ last'.minted
                       /\ IsFuzzyKey(last'.key)
                       /\ \A i \in 1..Len(canon) : canon[i].key # last'.key
                       /\ titles' = Append(titles, <<q, last'.key>>)]_vars

\* TitleQ, which scores exactly 92 against TitleP, was merged into the record
\* minted for TitleP.
C4_Witness ==
    /\ n = 2
    /\ Len(canon) = 1
    /\ titles = << <<norm(TitleP), canon[1].key>> >>
    /\ row_title(last.rec) = TitleQ
    /\ last.key = canon[1].key
    /\ last.existed

\* C5: titles holds fuzzy keys only, so a row without identifier is never
\* merged into a record keyed by doi:, pmid: or orcid:.
C5_FuzzyOnlyAgainstFuzzy ==
    /\ \A i \in 1..Len(titles) : IsFuzzyKey(titles[i][2])
    /\ (n > 0 /\ OnFuzzyPath(last.rec, last.src))
         => /\ IsFuzzyKey(last.key)
            /\ RecordAt(canon, last.key).doi = <<>>
            /\ RecordAt(canon, last.key).pmid = <<>>
            /\ \A i \in 1..Len(canon) :
                  ~IsFuzzyKey(canon[i].key) => canon[i].key # last.key

\* A row without identifier whose title is that of a doi:-keyed record was
\* given a fresh fuzzy key.
C5_Witness ==
    /\ n = 2
    /\ OnFuzzyPath(last.rec, last.src)
    /\ Len(canon) = 2
    /\ IsPrefixOf(DoiPrefix, canon[1].key)
    /\ canon[1].title = row_title(last.rec)
    /\ canon[1].title # <<>>
    /\ last.minted
    /\ canon[2].key = last.key

----------------------------------------------------------------------------
(* Properties of the field merger *)

FieldSet == {Fields[i] : i \in 1..Len(Fields)}

FreeTextFields == {"title", "journal", "venue", "authors"}

IdentifierFields == {"doi", "pmid", "url", "year"}

\* C6: when a row is merged into a record whose value for a field is empty
\* (every field of a record the row creates) and the row's value for the
\* field is non-empty, the record has the row's value afterwards.
C6_FillEmpty ==
    [][n' = n + 1
        => \A f \in FieldSet :
              (/\ row_value(last'.rec, f) # <<>>
               /\ \/ \A i \in 1..Len(canon) : canon[i].key # last'.key
                  \/ \E i \in 1..Len(canon) :
                        canon[i].key = last'.key /\ canon[i][f] = <<>>)
              => RecordAt(canon', last'.key)[f] = row_value(last'.rec, f)]_vars

\* {doi: D} from one source, then {title: T, doi: D} from crossref: one
\* record, with title T, supplied by crossref, and both sources.
C6_Witness ==
    /\ n = 2
    /\ last.existed
    /\ last.base.title = <<>>
    /\ last.src = "crossref"
    /\ row_title(last.rec) = TextA
    /\ Len(canon) = 1
    /\ canon[1].title = TextA
    /\ canon[1].doi = DoiPlain
    /\ Cardinality(canon[1].sources) = 2
    /\ last.src \in canon[1].sources

\* C7: a field of a canonical record that holds a non-empty value holds one
\* after every step, and a merged row whose value for the field is empty
\* leaves the value as it was.
C7_NeverEmptied ==
    [][\A i \in 1..Len(canon) : \A f \in FieldSet :
          canon[i][f] # <<>>
          => /\ canon'[i][f] # <<>>
             /\ (n' = n + 1 /\ row_value(last'.rec, f) = <<>>)
                   => canon'[i][f] = canon[i][f]]_vars

\* A row with an empty title was merged into a record with a title, which
\* kept it.
C7_Witness ==
    /\ n = 2
    /\ last.existed
    /\ last.base.title # <<>>
    /\ row_value(last.rec, "title") = <<>>
    /\ RecordAt(canon, last.key).title = last.base.title

\* C8: a non-empty doi, pmid, url or year of a canonical record is never
\* changed.
C8_IdentifiersFirstWriteWins ==
    [][\A i \in 1..Len(canon) : \A f \in IdentifierFields :
          canon[i][f] # <<>> => canon'[i][f] = canon[i][f]]_vars

\* {pmid: 111} then a longer pmid from pubmed under the same DOI: pmid is
\* still 111.
C8_Witness ==
    /\ n = 2
    /\ last.existed
    /\ last.base.pmid = Pmid1
    /\ row_pmid(last.rec) = Pmid1 \o Pmid2
    /\ last.src = "pubmed"
    /\ RecordAt(canon, last.key).pmid = Pmid1

\* The median of the configured weights
MedianWeight ==
    CHOOSE w \in {Weight(Sources[i]) : i \in 1..Len(Sources)} :
        Cardinality({i \in 1..Len(Sources) : Weight(Sources[i]) < w})
          = Cardinality({i \in 1..Len(Sources) : Weight(Sources[i]) > w})

\* C9: a non-empty value of a canonical record changes only in the merge of a
\* row into that record, to the row's value, and only when the field is
\* title, journal, venue or authors, the new value is strictly longer than
\* the old one and the weight of the row's source is at least the median
\* weight, 3.
C9_OverrideRule ==
    [][\A i \in 1..Len(canon) : \A f \in FieldSet :
          (canon[i][f] # <<>> /\ canon'[i][f] # canon[i][f])
          => /\ f \in FreeTextFields
             /\ Len(canon'[i][f]) > Len(canon[i][f])
             /\ n' = n + 1
             /\ canon[i].key = last'.key
             /\ canon'[i][f] = row_value(last'.rec, f)
             /\ MedianWeight = 3
             /\ Weight(last'.src) >= MedianWeight]_vars

\* A longer journal from a source of weight 3 replaced a shorter one.
C9_Witness ==
    /\ n = 2
    /\ last.existed
    /\ last.base.journal = TextA
    /\ last.src = "semanticscholar"
    /\ row_journal(last.rec) = TextB
    /\ RecordAt(canon, last.key).journal = TextB

\* C10: while rows are merged, the source of the merged row is in the sources
\* of the record at its key, and the sources of every record keep all their
\* members.
C10_SourcesGrow ==
    [][pc' = "harvest"
        => /\ \A i \in 1..Len(canon) :
                 /\ canon'[i].key = canon[i].key
                 /\ canon[i].sources \subseteq canon'[i].sources
           /\ n' = n + 1 => last'.src \in RecordAt(canon', last'.key).sources]_vars

\* A row that changed no field of the record it was merged into added its
\* source to the record's sources.
C10_Witness ==
    /\ n = 2
    /\ pc = "harvest"
    /\ last.existed
    /\ last.src \notin last.base.sources
    /\ last.base.sources # {}
    /\ \A f \in FieldSet : RecordAt(canon, last.key)[f] = last.base[f]
    /\ RecordAt(canon, last.key).sources = last.base.sources \cup {last.src}

----------------------------------------------------------------------------
(* Properties of the provenance and of the registry *)

\* The source provenance names for a field, or "" when it names none
prov_of(p, f) ==
    IF \E i \in 1..Len(p) : p[i][1] = f
    THEN p[CHOOSE i \in 1..Len(p) : p[i][1] = f][2]
    ELSE ""

\* C11: while rows are merged, for every canonical record and every field
\* with a non-empty value, provenance names a source for the field, one of
\* the record's sources; after a merge that left the field with the merged
\* row's value in a record the row created, it names the row's source.
C11_ProvenanceComplete ==
    pc = "harvest" =>
        /\ \A i \in 1..Len(canon) : \A f \in FieldSet :
              canon[i][f] # <<>>
              => prov_of(canon[i].provenance, f) \in canon[i].sources
        /\ (n > 0 /\ ~last.existed)
              => \A f \in FieldSet :
                    RecordAt(canon, last.key)[f] # <<>>
                    => prov_of(RecordAt(canon, last.key).provenance, f) = last.src

KeysOf(cn) == {cn[i].key : i \in 1..Len(cn)}

\* C12: canon holds exactly one record for every key, the keys of canon
\* after a merge are the keys before it and the key of the merged row, and
\* no step removes a record, moves it or changes its key.
C12_OneRecordPerKey ==
    [][/\ \A i, j \in 1..Len(canon') : canon'[i].key = canon'[j].key => i = j
       /\ Len(canon') >= Len(canon)
       /\ \A i \in 1..Len(canon) : canon'[i].key = canon[i].key
       /\ IF n' = n + 1
          THEN KeysOf(canon') = KeysOf(canon) \cup {last'.key}
          ELSE KeysOf(canon') = KeysOf(canon)]_vars

\* A second row was merged under the key of the first: canon still holds one
\* record, and it has both sources.
C12_Witness ==
    /\ n = 2
    /\ last.existed
    /\ Len(canon) = 1
    /\ canon[1].key = last.key
    /\ Cardinality(canon[1].sources) = 2

----------------------------------------------------------------------------
(* Properties of the order of the run and of the writer *)

\* The rows of source j of the data d with their source, in input order
Tagged(d, j) ==
    [k \in 1..Len(d[Sources[j]]) |-> [src |-> Sources[j], rec |-> d[Sources[j]][k]]]

\* The rows of d, source by source in the priority order
InPriorityOrder(d) ==
    Tagged(d, 1) \o Tagged(d, 2) \o Tagged(d, 3) \o Tagged(d, 4) \o Tagged(d, 5)

\* C13: the n-th row merged is the n-th row of the data read source by source
\* in the order pubmed, openalex, semanticscholar, crossref, orcid and, within
\* a source, in input order; no row is merged after a row of a source of
\* lower weight; and the output is written only when every row is merged.
C13_SourceOrder ==
    [][/\ n' = n + 1
          => /\ n' <= Len(InPriorityOrder(data'))
             /\ last'.src = InPriorityOrder(data')[n'].src
             /\ last'.rec = InPriorityOrder(data')[n'].rec
             /\ n > 0 => Weight(last'.src) <= Weight(last.src)
       /\ (pc = "harvest" /\ pc' = "done")
          => n = Len(InPriorityOrder(data))]_vars

\* Three rows in two files were merged: two of one source in their input
\* order, then one of a later source.
C13_Witness ==
    /\ pc = "harvest"
    /\ n = 3
    /\ \E j \in 1..si - 1 :
          /\ Len(data[Sources[j]]) = 2
          /\ data[Sources[j]][1] # data[Sources[j]][2]
    /\ ri = 1
    /\ last.rec = data[Sources[si]][1]
    /\ last.src = Sources[si]

\* C14: a merge under a new key adds its record at the end of canon and a
\* merge under a present key leaves every record at its place; the writer
\* emits, in each file, one row for every record of canon, in that order.
C14_OutputOrder ==
    [][/\ n' = n + 1
          => /\ \A i \in 1..Len(canon) : canon'[i].key = canon[i].key
             /\ IF last'.existed
                THEN Len(canon') = Len(canon)
                ELSE /\ Len(canon') = Len(canon) + 1
                     /\ canon'[Len(canon')].key = last'.key
       /\ (pc = "harvest" /\ pc' = "done")
          => /\ Len(csv') = Len(canon)
             /\ Len(jsonl') = Len(canon)
             /\ Len(rows') = Len(canon)
             /\ \A i \in 1..Len(canon) :
                   /\ rows'[i].key = canon[i].key
                   /\ \A f \in FieldSet :
                         /\ <<f, canon[i][f]>> \in {csv'[i][k] : k \in DOMAIN csv'[i]}
                         /\ <<f, canon[i][f]>> \in {jsonl'[i][k] : k \in DOMAIN jsonl'[i]}
                   /\ <<"key", canon[i].key>> \in {jsonl'[i][k] : k \in DOMAIN jsonl'[i]}]_vars

\* The first key, the second key, then a row merged under the first key: the
\* output has two rows, the first with the value the third row supplied.
C14_Witness ==
    /\ pc = "done"
    /\ n = 3
    /\ last.existed
    /\ Len(csv) = 2
    /\ last.key = rows[1].key
    /\ IsFuzzyKey(rows[2].key)
    /\ rows[1].authors = TextA
    /\ last.rec["authors"] = TextA
    /\ <<"authors", TextA>> \in {csv[1][k] : k \in DOMAIN csv[1]}

\* The parts of the text s between the commas
RECURSIVE comma_parts(_, _, _)
comma_parts(s, i, cur) ==
    IF i > Len(s) THEN <<cur>>
    ELSE IF s[i] = "," THEN <<cur>> \o comma_parts(s, i + 1, <<>>)
    ELSE comma_parts(s, i + 1, Append(cur, s[i]))

\* C15: the sources of every written row are the text of the tags of the
\* record's sources, each once, in ascending order, with commas between.
C15_SourcesSorted ==
    [][(pc = "harvest" /\ pc' = "done")
        => \A i \in 1..Len(canon) :
              \A parts \in {comma_parts(rows'[i].sources, 1, <<>>)} :
                 /\ {parts[k] : k \in 1..Len(parts)}
                       = {TagText(t) : t \in canon[i].sources}
                 /\ \A k \in 1..Len(parts) - 1 : StrLess(parts[k], parts[k + 1])
                 /\ <<"sources", rows'[i].sources>>
                       \in {csv'[i][k] : k \in DOMAIN csv'[i]}
                 /\ <<"sources", rows'[i].sources>>
                       \in {jsonl'[i][k] : k \in DOMAIN jsonl'[i]}]_vars

\* pubmed, then openalex contributed to one record: its sources are written
\* as openalex,pubmed.
C15_Witness ==
    /\ pc = "done"
    /\ n = 2
    /\ Len(rows) = 1
    /\ Len(data["pubmed"]) = 1
    /\ Len(data["openalex"]) = 1
    /\ rows[1].sources = TagText("openalex") \o <<",">> \o TagText("pubmed")

\* The names of the fields of a written record, in order
FieldNames(r) == [k \in DOMAIN r |-> r[k][1]]

\* C16: every record of the CSV file and of the JSONL file has the fields
\* title, year, journal, venue, authors, doi, pmid, url, sources, provenance,
\* in this order, and no other.
C16_OutputSchema ==
    pc = "done" =>
        /\ \A i \in 1..Len(csv) : FieldNames(csv[i]) = OutFields
        /\ \A i \in 1..Len(jsonl) : FieldNames(jsonl[i]) = OutFields

\* C17: every run starts from an empty canon and an empty titles, and a second
\* run over the same files ends with the canonical records, keys included,
\* and the two output files of the first.
C17_Deterministic ==
    [][/\ (pc = "load" /\ pc' = "harvest") => (canon' = <<>> /\ titles' = <<>>)
       /\ (pc' = "done" /\ past'.written)
          => /\ canon' = past'.canon
             /\ csv' = past'.csv
             /\ jsonl' = past'.jsonl]_vars

\* The second run over three rows, one of them merged with another, has
\* written two records.
C17_Witness ==
    /\ pc = "done"
    /\ past.written
    /\ n = 3
    /\ Len(past.csv) = 2
    /\ Len(csv) = 2
    /\ csv = past.csv

----------------------------------------------------------------------------
(* Properties of the handling of errors *)

\* C18: a run does not fail because a file is absent or unreadable: the
\* source of that file has no rows in data, the rows of every other file are
\* loaded, and the run goes on to merge them and write the output.
C18_MissingSourceTolerated ==
    /\ pc # "failed"
    /\ pc \in {"harvest", "done"}
          => \A s \in SourceSet :
                data[s] = IF files[s].state = "present" THEN files[s].rows
                          ELSE <<>>

\* Every field of the row is empty
AllEmpty(rec) == \A f \in RawFields : rec[f] = <<>>

\* C19: a row all of whose fields are empty is not merged: it leaves canon
\* and titles as they are (no record, no fuzzy key, no title, no source).
C19_EmptyRowDropped ==
    [][(si' # si \/ ri' # ri) /\ pc' = "harvest" /\ AllEmpty(data'[Sources[si']][ri'])
        => /\ canon' = canon
           /\ titles' = titles
           /\ n' = n]_vars

\* C20: when extractOne raises for a row, the row gets a new fuzzy key and is
\* merged under it, and the run goes on with the rows that are left.
C20_ScoringFailureMintsKey ==
    [][last'.raised /\ ~last.raised
        => /\ pc' = "harvest"
           /\ n' = n + 1
           /\ last'.minted
           /\ IsFuzzyKey(last'.key)
           /\ has_key(canon', last'.key)
           /\ titles' = Append(titles, <<norm(row_title(last'.rec)), last'.key>>)]_vars

----------------------------------------------------------------------------
(* The end-to-end scenario *)

\* The run has ended, and it has read ExamplePubmedRow from pubmed,
\* ExampleCrossrefRow from crossref and nothing else
ExampleRun ==
    /\ pc = "done"
    /\ data = [s \in SourceSet |->
                 IF s = "pubmed" THEN <<ExamplePubmedRow>>
                 ELSE IF s = "crossref" THEN <<ExampleCrossrefRow>>
                 ELSE <<>>]

\* What the scenario expects of every field but the title
ExampleRecord ==
    /\ Len(rows) = 1
    /\ rows[1].doi = ExampleDoi
    /\ rows[1].year = ExampleYear
    /\ rows[1].journal = ExampleJournal
    /\ rows[1].sources = TagText("crossref") \o <<",">> \o TagText("pubmed")

\* C21 as claimed: the output of the scenario is one record with doi
\* 10.1000/abc, year 2019, journal J Surg, sources pubmed and crossref and
\* the longer title, that of crossref.
C21_EndToEndLongTitle ==
    ExampleRun => (ExampleRecord /\ rows[1].title = ExampleLongTitle)

\* C21 amended: the output of the scenario is one record with doi 10.1000/abc,
\* year 2019, journal J Surg, sources pubmed and crossref and the title of
\* pubmed, the shorter one.
C21_EndToEnd ==
    ExampleRun
    => /\ ExampleRecord
       /\ rows[1].title = ExampleShortTitle
       /\ Len(csv) = 1
       /\ <<"title", ExampleShortTitle>> \in {csv[1][k] : k \in DOMAIN csv[1]}

\* The scenario has run to its end.
C21_Witness ==
    /\ ExampleRun
    /\ n = 2
    /\ last.existed
    /\ last.src = "crossref"
    /\ Len(rows) = 1
    /\ rows[1].title = ExampleShortTitle
    /\ rows[1].journal = ExampleJournal

----------------------------------------------------------------------------
(* Further properties of the resolver and of the merger *)

\* C24: when a row of pubmed, openalex or semanticscholar (weight >= 3) is
\* merged into a record whose title, journal, venue or authors is not empty
\* and strictly shorter than the row's value, the record has the row's value
\* afterwards and provenance names the row's source for the field.
C24_LongerValueOverrides ==
    [][(n' = n + 1 /\ last'.existed /\ Weight(last'.src) >= 3)
        => \A f \in FreeTextFields :
              \A i \in 1..Len(canon) :
                 (/\ canon[i].key = last'.key
                  /\ canon[i][f] # <<>>
                  /\ Len(canon[i][f]) < Len(row_value(last'.rec, f)))
                 => /\ canon'[i][f] = row_value(last'.rec, f)
                    /\ prov_of(canon'[i].provenance, f) = last'.src]_vars

\* A longer title from semanticscholar replaced the title of the record, and
\* provenance names semanticscholar for it.
C24_Witness ==
    /\ n = 2
    /\ last.existed
    /\ last.src = "semanticscholar"
    /\ last.base.title = TextA
    /\ row_title(last.rec) = TextB
    /\ RecordAt(canon, last.key).title = TextB
    /\ prov_of(RecordAt(canon, last.key).provenance, "title") = "semanticscholar"

\* The number a decimal numeral stands for
RECURSIVE int_of(_)
int_of(s) ==
    IF s = <<>> THEN 0
    ELSE 10 * int_of(SubSeq(s, 1, Len(s) - 1))
         + ((CHOOSE d \in 1..10 : DigitChars[d] = s[Len(s)]) - 1)

\* The ordinal of a fuzzy key
Ordinal(key) == int_of(SubSeq(key, Len(FuzzyPrefix) + 1, Len(key)))

\* C25: a fuzzy key, when it is minted, is the key of no record of canon, and
\* its ordinal is greater than the ordinal of every fuzzy key minted before
\* (the keys of titles), whatever rows with identifiers came in between.
C25_FreshFuzzyKeys ==
    [][(n' = n + 1 /\ last'.minted)
        => /\ IsFuzzyKey(last'.key)
           /\ \A i \in 1..Len(canon) : canon[i].key # last'.key
           /\ \A i \in 1..Len(titles) :
                 Ordinal(titles[i][2]) < Ordinal(last'.key)
           /\ Cardinality({i \in 1..Len(canon') : canon'[i].key = last'.key}) = 1]_vars

\* A fuzzy key, a doi: key and a second fuzzy key were assigned in a row: the
\* fuzzy keys are t:1 and t:3.
C25_Witness ==
    /\ pc = "harvest"
    /\ n = 3
    /\ Len(canon) = 3
    /\ canon[1].key = FuzzyPrefix \o <<"1">>
    /\ IsPrefixOf(DoiPrefix, canon[2].key)
    /\ canon[3].key = FuzzyPrefix \o <<"3">>
    /\ last.minted
    /\ Len(titles) = 2

\* C26: the doi and pmid of every canonical record agree with its key: under
\* doi:X the doi is X; under pmid:P the pmid is P and the doi is empty; under
\* an orcid: or fuzzy key both are empty.  So no two records have the same
\* non-empty doi.
C26_IdentifiersAgreeWithKey ==
    /\ \A i \in 1..Len(canon) :
          IF IsPrefixOf(DoiPrefix, canon[i].key)
          THEN canon[i].key = DoiPrefix \o canon[i].doi /\ canon[i].doi # <<>>
          ELSE IF IsPrefixOf(PmidPrefix, canon[i].key)
          THEN /\ canon[i].key = PmidPrefix \o canon[i].pmid
               /\ canon[i].pmid # <<>>
               /\ canon[i].doi = <<>>
          ELSE /\ IsPrefixOf(OrcidPrefix, canon[i].key) \/ IsFuzzyKey(canon[i].key)
               /\ canon[i].doi = <<>>
               /\ canon[i].pmid = <<>>
    /\ \A i, j \in 1..Len(canon) :
          (canon[i].doi # <<>> /\ canon[i].doi = canon[j].doi) => i = j

\* A row with a DOI and a PMID was merged under its doi: key and holds both;
\* an orcid row with a put_code alone is under an orcid: key with neither.
C26_Witness ==
    /\ n = 2
    /\ Len(canon) = 2
    /\ IsPrefixOf(DoiPrefix, canon[1].key)
    /\ canon[1].pmid = Pmid1
    /\ IsPrefixOf(OrcidPrefix, canon[2].key)
    /\ canon[2].doi = <<>>
    /\ canon[2].pmid = <<>>

\* C27: no two canonical records have the same non-empty pmid.
C27_PmidUnique ==
    \A i, j \in 1..Len(canon) :
        (canon[i].pmid # <<>> /\ canon[i].pmid = canon[j].pmid) => i = j

\* C28: the length of the title, journal, venue and authors of a canonical
\* record never decreases, and after the merge of a row of a source of weight
\* >= 3 it is at least the length of the row's value (so, the length never
\* decreasing, of every such value merged under the key so far).
C28_LengthMonotone ==
    [][/\ \A i \in 1..Len(canon) : \A f \in FreeTextFields :
             Len(canon'[i][f]) >= Len(canon[i][f])
       /\ (n' = n + 1 /\ Weight(last'.src) >= 3)
             => \A f \in FreeTextFields :
                   Len(RecordAt(canon', last'.key)[f])
                      >= Len(row_value(last'.rec, f))]_vars

\* A shorter authors value from pubmed was merged into a record with a longer
\* one, which was kept.
C28_Witness ==
    /\ n = 2
    /\ last.existed
    /\ last.src = "pubmed"
    /\ last.base.authors = TextB
    /\ row_authors(last.rec) = TextA
    /\ RecordAt(canon, last.key).authors = TextB

\* C29: titles only grows at its end, by the normalized title and the key of
\* a row that mints a fuzzy key; a row that joins a key, and the override of
\* a record's title, leave titles as it is; no key is in titles twice.
C29_TitlesFrozen ==
    [][/\ \A i \in 1..Len(titles) : i <= Len(titles') /\ titles'[i] = titles[i]
       /\ IF n' = n + 1 /\ last'.minted
          THEN titles' = Append(titles, <<norm(row_title(last'.rec)), last'.key>>)
          ELSE titles' = titles
       /\ \A i, j \in 1..Len(titles') : titles'[i][2] = titles'[j][2] => i = j]_vars

\* A row with the title " A \tb" joined the key minted for "b a" and
\* replaced the record's title: titles still holds "b a".
C29_Witness ==
    /\ n = 2
    /\ last.existed
    /\ ~last.minted
    /\ row_title(last.rec) = TitleU
    /\ Len(canon) = 1
    /\ canon[1].title = TitleU
    /\ last.base.title = TitleV
    /\ titles = << <<norm(TitleV), canon[1].key>> >>

----------------------------------------------------------------------------
(* tools/merge_master.py: main() reads the rows of output/*.csv, keeps one  *)
(* row per DOI and, without a DOI, one per title+year+journal, joins the    *)
(* OpenAlex enrichment to them and writes output/eppley_master.csv.         *)

\* norm_title(val): lines 33-36
norm_title(val) == collapse(lower(strip(val)), 1)

\* The strings that ^https?://(dx\.)?doi\.org/ matches, in lower case
DoiOrgPrefixes ==
    { <<"h","t","t","p">> \o sch \o <<":","/","/">> \o dx
          \o <<"d","o","i",".","o","r","g","/">> :
        sch \in {<<>>, <<"s">>}, dx \in {<<>>, <<"d","x",".">>} }

\* norm_doi(val): lines 38-41; re.I matches the prefix in any case
norm_doi(val) ==
    LET d   == strip(val)
        hit == {p \in DoiOrgPrefixes : IsPrefixOf(p, lower(d))}
    IN  IF hit = {} THEN lower(d)
        ELSE lower(SubSeq(d, Len(CHOOSE p \in hit : TRUE) + 1, Len(d)))

\* A row of all_df: the columns of map_to_common that main() reads
MasterRow(doi, title, year, journal) ==
    [title |-> title, year |-> year, journal |-> journal, doi |-> doi]

Year2020 == <<"2", "0", "2", "0">>
DoiOther == <<"1", "0", ".", "1", "/", "y">>

\* The rows of the input files
InputRows ==
    { MasterRow(DoiPlain, TextA, Year2020, <<"J">>),
      MasterRow(DoiUpper, TextC, <<>>, <<>>),
      MasterRow(HttpsDoiOrg \o DoiPlain, TextA, <<>>, <<>>),
      MasterRow(DoiOther, TextA, Year2020, <<"J">>),
      MasterRow(<<>>, TextA, Year2020, <<"J">>),
      MasterRow(<<>>, <<" ", "a", "b">>, Year2020, <<"j", " ">>),
      MasterRow(<<>>, TextC, <<>>, <<>>) }

\* The rows of output/eppley_openalex.csv: tools/enrich_openalex.py writes one
\* row for every work it finds, with the DOI of the master row it looked up,
\* which is empty when the work was found by PMID or by title
OaRow(doi, id) == [doi |-> doi, openalex_id |-> id]

OaRows ==
    { OaRow(DoiPlain, <<"W", "1">>),
      OaRow(DoiUpper, <<"W", "2">>),
      OaRow(<<>>, <<"W", "3">>),
      OaRow(<<>>, <<"W", "4">>) }

MaxMasterRows == 2
MaxOaRows == 2

\* sort_values: the keys in the order of Python strings
RECURSIVE sort_values(_)
sort_values(keys) ==
    IF keys = {} THEN <<>>
    ELSE LET first == CHOOSE x \in keys : \A y \in keys \ {x} : StrLess(x, y)
         IN  <<first>> \o sort_values(keys \ {first})

\* The rows at the places at of df
RECURSIVE take(_, _, _)
take(df, at, i) ==
    IF i > Len(df) THEN <<>>
    ELSE IF i \in at THEN <<df[i]>> \o take(df, at, i + 1)
    ELSE take(df, at, i + 1)

\* Lines 148-152: the title+year+journal key of a row without a DOI
tyj(r) == norm_title(r.title) \o <<"|", "|">> \o r.year \o <<"|", "|">>
          \o strip(lower(r.journal))

\* df.sort_values([k]).drop_duplicates(subset=[k], keep="first"), where
\* subset holds column k of df and first gives the place in df of the row that
\* the sort puts first among the rows of a key
drop_duplicates(df, subset, first) ==
    LET ks == sort_values({subset[i] : i \in 1..Len(df)})
    IN  [i \in 1..Len(ks) |-> df[first[ks[i]]]]

\* The choices of the sort: sort_values sorts with quicksort, which is not
\* stable, so any row of a key may come first among the rows of that key
firsts(subset) ==
    { f \in [{subset[i] : i \in 1..Len(subset)} -> 1..Len(subset)] :
        \A k \in DOMAIN f : subset[f[k]] = k }

\* master.merge(oa, on="_doi_norm", how="left"): every row of master once for
\* every row of oa with its _doi_norm, in the order of oa, and once with empty
\* OpenAlex columns if there is none
RECURSIVE left_join(_, _, _)
left_join(m, oa, i) ==
    IF i > Len(m) THEN <<>>
    ELSE LET hits == SelectSeq(oa, LAMBDA o : norm_doi(o.doi) = norm_doi(m[i].doi))
             with(id) == [title |-> m[i].title, year |-> m[i].year,
                          journal |-> m[i].journal, doi |-> m[i].doi,
                          openalex_id |-> id]
         IN  (IF hits = <<>> THEN <<with(<<>>)>>
              ELSE [k \in 1..Len(hits) |-> with(hits[k].openalex_id)])
             \o left_join(m, oa, i + 1)

\* attach_openalex(master): lines 80-109; without the file, or when reading it
\* raises, the OpenAlex columns are empty
attach_openalex(m, oa) ==
    IF oa.state = "rows" THEN left_join(m, oa.rows, 1)
    ELSE left_join(m, <<>>, 1)

\* main() starts on input files that hold at most MaxMasterRows rows and an
\* OpenAlex file that is absent, unreadable or holds at most MaxOaRows rows
InitMaster ==
    /\ pc = "main"
    /\ \E k \in 0..MaxMasterRows : all_df \in [1..k -> InputRows]
    /\ \/ openalex \in {[state |-> "absent", rows |-> <<>>],
                        [state |-> "unreadable", rows |-> <<>>]}
       \/ \E k \in 0..MaxOaRows : \E rs \in [1..k -> OaRows] :
              openalex = [state |-> "rows", rows |-> rs]
    /\ master = <<>>
    /\ out = <<>>
    /\ files = [s \in SourceSet |-> FileOf(<<>>)]
    /\ data = [s \in SourceSet |-> <<>>]
    /\ canon = <<>>
    /\ titles = <<>>
    /\ si = 1
    /\ ri = 0
    /\ n = 0
    /\ last = NoRecord
    /\ rows = <<>>
    /\ csv = <<>>
    /\ jsonl = <<>>
    /\ past = NoOutput
    /\ GenerateIdle /\ WpIdle

\* Lines 121-124: without input rows main() writes an empty file
NoInputs ==
    /\ pc = "main"
    /\ all_df = <<>>
    /\ out' = <<>>
    /\ pc' = "written"
    /\ UNCHANGED <<all_df, openalex, master>>
    /\ UNCHANGED <<mergeVars, generateVars, wpVars>>

\* Lines 126-165: one row per DOI, then one row per title+year+journal
Dedupe ==
    /\ pc = "main"
    /\ all_df # <<>>
    /\ LET has_doi == {i \in 1..Len(all_df) : norm_doi(all_df[i].doi) # <<>>}
           with_doi == take(all_df, has_doi, 1)
           no_doi == take(all_df, (1..Len(all_df)) \ has_doi, 1)
           doi_norm == [i \in 1..Len(with_doi) |-> norm_doi(with_doi[i].doi)]
           tyjs == [i \in 1..Len(no_doi) |-> tyj(no_doi[i])]
       IN  \E f \in firsts(doi_norm), g \in firsts(tyjs) :
              master' = drop_duplicates(with_doi, doi_norm, f)
                        \o drop_duplicates(no_doi, tyjs, g)
    /\ pc' = "attach"
    /\ UNCHANGED <<all_df, openalex, out>>
    /\ UNCHANGED <<mergeVars, generateVars, wpVars>>

\* Line 168
AttachOpenalex ==
    /\ pc = "attach"
    /\ master' = attach_openalex(master, openalex)
    /\ pc' = "to_csv"
    /\ UNCHANGED <<all_df, openalex, out>>
    /\ UNCHANGED <<mergeVars, generateVars, wpVars>>

\* Line 170
ToCsv ==
    /\ pc = "to_csv"
    /\ out' = master
    /\ pc' = "written"
    /\ UNCHANGED <<all_df, openalex, master>>
    /\ UNCHANGED <<mergeVars, generateVars, wpVars>>

NextMaster == NoInputs \/ Dedupe \/ AttachOpenalex \/ ToCsv

SpecMaster == InitMaster /\ [][NextMaster]_vars

\* The key that the deduplication gives a row: its normalized DOI, or without
\* one its normalized title, year and lower-cased trimmed journal
SameKey(a, b) ==
    IF norm_doi(a.doi) # <<>> \/ norm_doi(b.doi) # <<>>
    THEN norm_doi(a.doi) = norm_doi(b.doi)
    ELSE /\ norm_title(a.title) = norm_title(b.title)
         /\ a.year = b.year
         /\ strip(lower(a.journal)) = strip(lower(b.journal))

\* C22: the master file that main() has written holds at most one row per
\* normalized DOI and, among the rows without a DOI, at most one row per
\* (normalized title, year, lower-cased trimmed journal); every input row is
\* represented by exactly one row of the file with its key.
C22_MasterDeduplicated ==
    pc = "written" =>
        /\ \A i, k \in 1..Len(out) : i # k => ~SameKey(out[i], out[k])
        /\ \A i \in 1..Len(all_df) :
              Cardinality({k \in 1..Len(out) : SameKey(out[k], all_df[i])}) = 1

----------------------------------------------------------------------------
(* tools/generate_master_csv.py: merge() reads the collector files of       *)
(* ALLOWED_FILES that exist, in that order, normalizes every row and writes *)
(* output/eppley_master.csv.                                                *)

\* Lines 18-28
ALLOWED_FILES ==
    << "pubmed_eppley_with_abstracts.csv", "pubmed_eppley.csv",
       "wordpress_posts.csv", "crossref_works.csv", "openalex_works.csv",
       "clinical_trials.csv", "orcid_profiles.csv", "orcid_works.csv",
       "youtube_all.csv" >>

\* Line 70: f.replace(".csv", "")
source_of(f) ==
    CASE f = "pubmed_eppley_with_abstracts.csv" -> "pubmed_eppley_with_abstracts"
      [] f = "pubmed_eppley.csv"   -> "pubmed_eppley"
      [] f = "wordpress_posts.csv" -> "wordpress_posts"
      [] f = "crossref_works.csv"  -> "crossref_works"
      [] f = "openalex_works.csv"  -> "openalex_works"
      [] f = "clinical_trials.csv" -> "clinical_trials"
      [] f = "orcid_profiles.csv"  -> "orcid_profiles"
      [] f = "orcid_works.csv"     -> "orcid_works"
      [] f = "youtube_all.csv"     -> "youtube_all"

\* Lines 33-43
FIELDS == <<"source", "title", "summary", "date", "link", "authors",
            "journal", "type", "keywords">>

\* row.get(k): the value of column k, empty (None) without the column
get(row, k) == IF k \in DOMAIN row THEN row[k] ELSE <<>>

\* normalize_row(source, row): lines 45-62
normalize_row(source, row) ==
    [source   |-> source,
     title    |-> Or(get(row, "title"),
                     Or(get(row, "BriefTitle"), get(row, "display_name"))),
     summary  |-> LET text == Or(get(row, "abstract"),
                                 Or(get(row, "description"), get(row, "content")))
                  IN  SubSeq(text, 1, IF Len(text) < 2000 THEN Len(text) ELSE 2000),
     date     |-> Or(get(row, "year"),
                     Or(get(row, "publication_date"), get(row, "StartDate"))),
     link     |-> Or(get(row, "url"),
                     Or(get(row, "openalex_url"), get(row, "link"))),
     authors  |-> Or(get(row, "authors"),
                     Or(get(row, "authorships"), get(row, "author"))),
     journal  |-> Or(get(row, "journal"),
                     Or(get(row, "host_venue_name"), get(row, "institution"))),
     type     |-> Or(get(row, "type"), get(row, "type_display_name")),
     keywords |-> Or(get(row, "concepts"), get(row, "tags"))]

\* The rows that a collector file holds when it exists; the two PubMed files
\* hold the same article, with its abstract in the enriched file
CollectorRows(f) ==
    CASE f = "pubmed_eppley_with_abstracts.csv" ->
            <<[title |-> TextA, abstract |-> TextB, year |-> Year2020,
               journal |-> <<"J">>]>>
      [] f = "pubmed_eppley.csv" ->
            <<[title |-> TextA, year |-> Year2020, journal |-> <<"J">>]>>
      [] f = "wordpress_posts.csv" ->
            <<[title |-> TextC, url |-> <<"u">>, body |-> TextB]>>
      [] f = "crossref_works.csv" ->
            <<[title |-> TextB, year |-> Year2020, url |-> <<"v">>]>>
      [] f = "openalex_works.csv" ->
            <<[display_name |-> TextB, publication_date |-> Year2020,
               openalex_url |-> <<"w">>]>>
      [] f = "clinical_trials.csv" ->
            <<[BriefTitle |-> TextC, StartDate |-> Year2020]>>
      [] f = "orcid_profiles.csv" ->
            <<[institution |-> TextA, keywords |-> TextC]>>
      [] f = "orcid_works.csv" ->
            <<[title |-> TextA, journal |-> <<"J">>, type |-> <<"t">>]>>
      [] f = "youtube_all.csv" ->
            <<[title |-> TextC, webpage_url |-> <<"y">>]>>

\* merge() starts on an output directory that holds some of the files
InitGenerate ==
    /\ pc = "merge"
    /\ \E there \in SUBSET {ALLOWED_FILES[i] : i \in 1..Len(ALLOWED_FILES)} :
          present = [f \in there |-> CollectorRows(f)]
    /\ fi = 1
    /\ records = <<>>
    /\ master_csv = <<>>
    /\ files = [s \in SourceSet |-> FileOf(<<>>)]
    /\ data = [s \in SourceSet |-> <<>>]
    /\ canon = <<>>
    /\ titles = <<>>
    /\ si = 1
    /\ ri = 0
    /\ n = 0
    /\ last = NoRecord
    /\ rows = <<>>
    /\ csv = <<>>
    /\ jsonl = <<>>
    /\ past = NoOutput
    /\ MasterIdle /\ WpIdle

\* Lines 66-69: a file that does not exist is passed over
SkipFile ==
    /\ pc = "merge"
    /\ fi <= Len(ALLOWED_FILES)
    /\ ALLOWED_FILES[fi] \notin DOMAIN present
    /\ fi' = fi + 1
    /\ UNCHANGED <<pc, present, records, master_csv>>
    /\ UNCHANGED <<mergeVars, masterVars, wpVars>>

\* Lines 66-74: the rows of a file that exists are appended to records
ReadFile ==
    /\ pc = "merge"
    /\ fi <= Len(ALLOWED_FILES)
    /\ ALLOWED_FILES[fi] \in DOMAIN present
    /\ LET f == ALLOWED_FILES[fi]
       IN  records' = records \o [i \in 1..Len(present[f]) |->
                                     normalize_row(source_of(f), present[f][i])]
    /\ fi' = fi + 1
    /\ UNCHANGED <<pc, present, master_csv>>
    /\ UNCHANGED <<mergeVars, masterVars, wpVars>>

\* Lines 76-80: DictWriter writes the FIELDS of every record
WriteMasterCsv ==
    /\ pc = "merge"
    /\ fi > Len(ALLOWED_FILES)
    /\ master_csv' = [i \in 1..Len(records) |->
                         [k \in 1..Len(FIELDS) |-> records[i][FIELDS[k]]]]
    /\ pc' = "generated"
    /\ UNCHANGED <<present, fi, records>>
    /\ UNCHANGED <<mergeVars, masterVars, wpVars>>

NextGenerate == SkipFile \/ ReadFile \/ WriteMasterCsv

SpecGenerate == InitGenerate /\ [][NextGenerate]_vars

\* The sources of the rows of the written master, in order
master_sources == [i \in 1..Len(master_csv) |-> master_csv[i][1]]

\* C23: when both pubmed_eppley_with_abstracts.csv and pubmed_eppley.csv are
\* present, the master that merge() has written holds the rows of the enriched
\* file and no row of the plain pubmed_eppley.csv.
C23_PrefersEnriched ==
    (/\ pc = "generated"
     /\ "pubmed_eppley_with_abstracts.csv" \in DOMAIN present
     /\ "pubmed_eppley.csv" \in DOMAIN present)
    => /\ \E i \in 1..Len(master_csv) :
              master_sources[i] = "pubmed_eppley_with_abstracts"
       /\ \A i \in 1..Len(master_csv) : master_sources[i] # "pubmed_eppley"

----------------------------------------------------------------------------
(* main.py, run_wp_rest: a run reads the pages of the REST listing of the   *)
(* posts from the page after state["rest_page"], appends the posts to       *)
(* output/wordpress_posts.csv in batches and saves the state with them.     *)

MaxPosts == 3
MaxArg == 2

\* load_state(): lines 121-125, the state of a first run
DefaultState == [rest_page |-> 0, completed |-> 0]

\* The answer of /wp-json/wp/v2/posts?per_page=..&page=..: the posts of the
\* page, and no list (safe_get_json gives None) for a page after the last
get_page(posts, per_page, page) ==
    LET from == (page - 1) * per_page + 1
        to   == IF page * per_page < Len(posts) THEN page * per_page
                ELSE Len(posts)
    IN  IF from > Len(posts) THEN <<>> ELSE SubSeq(posts, from, to)

\* Lines 145-154: the row of a post
wp_row(it) == [url |-> it.link, source_mode |-> "rest"]

\* The collector starts on a listing of at most MaxPosts posts, without a
\* saved state; per_page, max_posts and save_every are those of every run
InitWp ==
    /\ pc = "idle"
    /\ \E len \in 0..MaxPosts : listing = [i \in 1..len |-> [link |-> i]]
    /\ args \in [per_page : 1..MaxArg, max_posts : 1..MaxArg,
                 save_every : 1..MaxArg]
    /\ state = DefaultState
    /\ wp_state = DefaultState
    /\ run = [page |-> 0, collected |-> 0, batch |-> <<>>, j |-> <<>>, it |-> 0]
    /\ wp_csv = <<>>
    /\ files = [s \in SourceSet |-> FileOf(<<>>)]
    /\ data = [s \in SourceSet |-> <<>>]
    /\ canon = <<>>
    /\ titles = <<>>
    /\ si = 1
    /\ ri = 0
    /\ n = 0
    /\ last = NoRecord
    /\ rows = <<>>
    /\ csv = <<>>
    /\ jsonl = <<>>
    /\ past = NoOutput
    /\ MasterIdle /\ GenerateIdle

\* main() line 522 and run_wp_rest lines 135-138: a run loads the saved state
\* and starts on the page after rest_page
StartRun ==
    /\ pc = "idle"
    /\ state' = wp_state
    /\ run' = [page |-> wp_state.rest_page + 1, collected |-> 0,
               batch |-> <<>>, j |-> <<>>, it |-> 0]
    /\ pc' = "while"
    /\ UNCHANGED <<listing, args, wp_state, wp_csv>>
    /\ UNCHANGED <<mergeVars, masterVars, generateVars>>

\* Lines 140-143: the next page is fetched unless max_posts are collected; the
\* loop ends on a page without posts
FetchPage ==
    /\ pc = "while"
    /\ IF run.collected < args.max_posts
       THEN \E j \in {get_page(listing, args.per_page, run.page)} :
               /\ run' = [run EXCEPT !.j = j, !.it = 1]
               /\ pc' = IF j = <<>> THEN "flush" ELSE "for"
       ELSE /\ pc' = "flush"
            /\ run' = run
    /\ UNCHANGED <<listing, args, state, wp_state, wp_csv>>
    /\ UNCHANGED <<mergeVars, masterVars, generateVars>>

\* Lines 144-161: a post joins the batch; a batch of save_every rows is written
\* and the state saved with rest_page = page
collect(r, st, saved, written, save_every) ==
    LET batch == Append(r.batch, wp_row(r.j[r.it]))
        counted == [st EXCEPT !.completed = st.completed + 1]
    IN  IF Len(batch) >= save_every
        THEN [batch |-> <<>>,
              state |-> [counted EXCEPT !.rest_page = r.page],
              wp_state |-> [counted EXCEPT !.rest_page = r.page],
              wp_csv |-> written \o batch]
        ELSE [batch |-> batch, state |-> counted, wp_state |-> saved,
              wp_csv |-> written]

CollectPost ==
    /\ pc = "for"
    /\ \E c \in {collect(run, state, wp_state, wp_csv, args.save_every)} :
          /\ state' = c.state
          /\ wp_state' = c.wp_state
          /\ wp_csv' = c.wp_csv
          /\ run' = [run EXCEPT !.batch = c.batch,
                                !.collected = run.collected + 1,
                                !.it = IF run.collected + 1 >= args.max_posts
                                          \/ run.it = Len(run.j)
                                       THEN run.it ELSE run.it + 1]
    /\ pc' = IF run.collected + 1 >= args.max_posts \/ run.it = Len(run.j)
             THEN "paged" ELSE "for"
    /\ UNCHANGED <<listing, args>>
    /\ UNCHANGED <<mergeVars, masterVars, generateVars>>

\* Lines 162-163: after the for loop, ended or left by break, the page number
\* goes up; a short page ends the while loop
NextPage ==
    /\ pc = "paged"
    /\ run' = [run EXCEPT !.page = run.page + 1]
    /\ pc' = IF Len(run.j) < args.per_page THEN "flush" ELSE "while"
    /\ UNCHANGED <<listing, args, state, wp_state, wp_csv>>
    /\ UNCHANGED <<mergeVars, masterVars, generateVars>>

\* Lines 165-167: the rows left in the batch are written and the state saved
\* with rest_page = page - 1
Flush ==
    /\ pc = "flush"
    /\ IF run.batch # <<>>
       THEN /\ wp_csv' = wp_csv \o run.batch
            /\ state' = [state EXCEPT !.rest_page = run.page - 1]
            /\ wp_state' = [state EXCEPT !.rest_page = run.page - 1]
       ELSE UNCHANGED <<wp_csv, state, wp_state>>
    /\ pc' = "idle"
    /\ UNCHANGED <<listing, args, run>>
    /\ UNCHANGED <<mergeVars, masterVars, generateVars>>

NextWp == StartRun \/ FetchPage \/ CollectPost \/ NextPage \/ Flush

SpecWp == InitWp /\ [][NextWp]_vars

\* C30: over any sequence of runs that each resume from the saved state, the
\* posts written are the first posts of the listing, each once and none
\* skipped, and a run that ends before max_posts posts has written them all.
C30_ResumableWithoutLoss ==
    /\ Len(wp_csv) <= Len(listing)
    /\ \A i \in 1..Len(wp_csv) : i <= Len(listing) => wp_csv[i].url = listing[i].link
    /\ (pc = "idle" /\ run.page > 0 /\ run.collected < args.max_posts)
          => Len(wp_csv) = Len(listing)

====
